---- MODULE Spec2Model ----
(***************************************************************************)
(* PUT validation and commit core of a node (sn_node/src/put_validation.rs)*)
(*                                                                         *)
(* The node's state is its local record store and its wallet.  Every call  *)
(* of one of the two entry points is one action; the variable `last` holds *)
(* what the call just taken was given, the values of the handler's local   *)
(* variables, the result it returned and the ordered log of the effects it *)
(* had on its collaborators (replication fetcher, wallet, record store,    *)
(* network, outbound replication).                                         *)
(*                                                                         *)
(* The handlers are async and the node runs them as concurrent tasks.  The *)
(* specifications of concurrent PUTs split a call at its await points; the *)
(* variable `inflight` holds, for each task, how far its call has got and  *)
(* what it has read so far.                                                *)
(***************************************************************************)
EXTENDS Integers, Sequences, FiniteSets, TLC

VARIABLES store, wallet, last, inflight

vars == <<store, wallet, last, inflight>>

(***************************************************************************)
(* Bounds of the model                                                     *)
(***************************************************************************)
\* chunks (distinct contents) a PUT may carry
NumChunks == 1
\* register addresses
NumRegisters == 1
\* entries a register may hold
NumEntries == 1
\* cash notes that exist
NumNotes == 2
\* transfers in one payment
MaxTransfers == 2
\* signed spends that exist
NumSpends == 4
\* spends in one inbound Spend record
MaxIncomingSpends == 2
\* spends the network returns for one address
MaxNetworkSpends == 1
\* further spends of the first unique pubkey (double spend attempts)
NumDoubleSpends == 31
\* largest amount a NanoTokens holds (u64::MAX, scaled down)
NanoMax == 16
\* calls that run concurrently
NumTasks == 2

(***************************************************************************)
(* Program constants                                                       *)
(***************************************************************************)
MAX_DOUBLE_SPEND_ATTEMPTS_TO_KEEP_FROM_PUTS == 15
MAX_DOUBLE_SPEND_ATTEMPTS_TO_KEEP_PER_RECORD == 30

Chunks == 1..NumChunks
RegisterAddresses == 1..NumRegisters
Entries == 1..NumEntries
Notes == 1..NumNotes
SignedSpends == 1..NumSpends

RecordKinds == {"Chunk", "ChunkWithPayment", "Register", "RegisterWithPayment", "Spend"}

(***************************************************************************)
(* Sequences helpers                                                       *)
(***************************************************************************)
SeqsUpTo(S, n) == UNION {[1..m -> S] : m \in 0..n}

Range(s) == {s[i] : i \in DOMAIN s}

RECURSIVE SetToSortedSeq(_)
SetToSortedSeq(S) ==
    IF S = {} THEN <<>>
    ELSE LET m == CHOOSE x \in S : \A y \in S : x <= y
         IN  <<m>> \o SetToSortedSeq(S \ {m})

Take(s, n) == IF Len(s) <= n THEN s ELSE SubSeq(s, 1, n)

(***************************************************************************)
(* Addresses, keys and content hashes                                      *)
(***************************************************************************)
\* chunk.network_address(): XorName::from_content of the chunk's content
ChunkXorName(c) == 1000 + c
\* register.address(): independent of the register's content
RegisterXorName(r) == 100 + r
\* SpendAddress::from_unique_pubkey
SpendXorName(pk) == 200 + pk

NetworkAddress(t, name) == [t |-> t, name |-> name]
from_chunk_address(c) == NetworkAddress("chunk", ChunkXorName(c))
from_register_address(r) == NetworkAddress("register", RegisterXorName(r))
from_spend_address(pk) == NetworkAddress("spend", SpendXorName(pk))

\* NetworkAddress::to_record_key: the bytes of the address's name
to_record_key(addr) == addr.name

(***************************************************************************)
(* Wallet: which cash notes it holds, which it has already spent           *)
(***************************************************************************)
NoteValue(n) == IF n = 1 THEN 10 ELSE 5

\* wallet.get_confirmed_spend(spend_addr) is Ok(Some(_))
get_confirmed_spend(w, n) == n \in w.confirmed

\* wallet.deposit_and_store_to_disk(&cash_notes)
deposit_and_store_to_disk(w, cash_notes) ==
    [w EXCEPT !.available = w.available \cup Range(cash_notes)]

\* wallet.balance()
balance(w) ==
    LET RECURSIVE Sum(_)
        Sum(S) == IF S = {} THEN 0
                  ELSE LET n == CHOOSE x \in S : TRUE
                       IN  NoteValue(n) + Sum(S \ {n})
    IN  Sum(w.available)

(***************************************************************************)
(* Payments                                                                *)
(***************************************************************************)
\* Transfer::Encrypted(_) with what verify_and_unpack_transfer answers for it
Encrypted(out, notes) ==
    [t |-> "Encrypted", out |-> out, notes |-> notes, redemptions |-> <<>>]
\* Transfer::NetworkRoyalties(redemptions) with what
\* verify_cash_notes_redemptions answers for it; a redemption is worth 1
NetworkRoyalties(out, redemptions) ==
    [t |-> "NetworkRoyalties", out |-> out, notes |-> <<>>, redemptions |-> redemptions]

Transfers ==
    {Encrypted("FailedToDecypherTransfer", <<>>), Encrypted("Invalid", <<>>)}
    \cup {Encrypted("Ok", <<n>>) : n \in Notes}
    \cup {NetworkRoyalties("Ok", <<1>>), NetworkRoyalties("Invalid", <<1>>)}

StoreCosts == {10}

Quotes == [cost : StoreCosts, valid : BOOLEAN]

Payments == [transfers : SeqsUpTo(Transfers, MaxTransfers), quote : Quotes]

\* payments that lead the validator to each of its results: nothing for us,
\* a transfer that does not verify, no royalties, a quote that does not
\* verify, too little, paid in full
RouterPayments ==
    LET cost == CHOOSE c \in StoreCosts : TRUE
        Pay(transfers, valid) ==
            [transfers |-> transfers, quote |-> [cost |-> cost, valid |-> valid]]
    IN  {Pay(<<Encrypted("FailedToDecypherTransfer", <<>>)>>, TRUE),
         Pay(<<Encrypted("Invalid", <<>>)>>, TRUE),
         Pay(<<Encrypted("Ok", <<1>>)>>, TRUE),
         Pay(<<Encrypted("Ok", <<1>>), NetworkRoyalties("Ok", <<1>>)>>, FALSE),
         Pay(<<Encrypted("Ok", <<2>>), NetworkRoyalties("Ok", <<1>>)>>, TRUE),
         Pay(<<Encrypted("Ok", <<1>>), NetworkRoyalties("Ok", <<1>>)>>, TRUE)}

NoPayment == [transfers |-> <<>>, quote |-> [cost |-> 0, valid |-> FALSE]]

\* NanoTokens::checked_add: -1 stands for None
checked_add(a, b) == IF a < 0 \/ b < 0 \/ a + b > NanoMax THEN -1 ELSE a + b

\* calculate_royalties_fee(storecost)
calculate_royalties_fee(storecost) == storecost \div 10

\* total_cash_notes_amount: the first checked_add that overflows ends the sum
RECURSIVE total_cash_notes_amount(_)
total_cash_notes_amount(cash_notes) ==
    IF cash_notes = <<>> THEN 0
    ELSE checked_add(total_cash_notes_amount(SubSeq(cash_notes, 1, Len(cash_notes) - 1)),
                     NoteValue(cash_notes[Len(cash_notes)]))

\* the same sum over the cash notes of verified royalty redemptions
RECURSIVE total_redemptions_amount(_)
total_redemptions_amount(rs) ==
    IF rs = <<>> THEN 0
    ELSE checked_add(total_redemptions_amount(SubSeq(rs, 1, Len(rs) - 1)), rs[Len(rs)])

(***************************************************************************)
(* Effects a call has on its collaborators, in the order it has them       *)
(***************************************************************************)
\* a record's value: the header's kind and the payload's bytes
Value(kind, bytes) == [kind |-> kind, bytes |-> bytes]
NoValue == Value("None", <<>>)

\* XorName::from_content(&record.value): equal exactly for equal values
content_hash_of(value) == [of |-> value]

NoType == [t |-> "None", hash |-> content_hash_of(NoValue)]
RecordTypeChunk == [t |-> "Chunk", hash |-> content_hash_of(NoValue)]
RecordTypeNonChunk(content_hash) == [t |-> "NonChunk", hash |-> content_hash]

Ev(name, key, rtype) == [ev |-> name, key |-> key, rtype |-> rtype]
E0(name) == Ev(name, 0, NoType)
EK(name, key) == Ev(name, key, NoType)

(***************************************************************************)
(* Transfer decoder: cash_notes_from_transfers                             *)
(***************************************************************************)
Walked(err, i, cash_notes, royalties_cash_notes_r, received_fee) ==
    [err |-> err, walked |-> i, cash_notes |-> cash_notes,
     royalties_cash_notes_r |-> royalties_cash_notes_r, received_fee |-> received_fee]

\* the for loop over the transfers, from transfers[i] on
RECURSIVE transfers_walk(_, _, _, _, _)
transfers_walk(transfers, i, cash_notes, royalties_cash_notes_r, received_fee) ==
    IF i > Len(transfers)
    THEN Walked("", i - 1, cash_notes, royalties_cash_notes_r, received_fee)
    ELSE
      LET transfer == transfers[i] IN
      IF transfer.t = "Encrypted"
      THEN CASE transfer.out = "FailedToDecypherTransfer" ->
                  \* transfer not for us
                  transfers_walk(transfers, i + 1, cash_notes,
                                 royalties_cash_notes_r, received_fee)
             [] transfer.out = "Ok" ->
                  transfers_walk(transfers, i + 1, cash_notes \o transfer.notes,
                                 royalties_cash_notes_r, received_fee)
             [] OTHER ->
                  \* transfer invalid
                  Walked("InvalidTransfer", i, cash_notes,
                         royalties_cash_notes_r, received_fee)
      ELSE IF transfer.out = "Ok"
           THEN LET received_royalties == total_redemptions_amount(transfer.redemptions)
                    fee == checked_add(received_fee, received_royalties)
                IN  IF received_royalties < 0 \/ fee < 0
                    THEN Walked("NumericOverflow", i, cash_notes,
                                royalties_cash_notes_r, received_fee)
                    ELSE transfers_walk(transfers, i + 1, cash_notes,
                                        royalties_cash_notes_r \o transfer.redemptions, fee)
           ELSE \* invalid network royalties payment: warn and go on
                transfers_walk(transfers, i + 1, cash_notes,
                               royalties_cash_notes_r, received_fee)

\* faulty variant: the walk ends at the first transfer that is not for us
cash_notes_until_not_for_us(transfers) ==
    LET not_for_us == {i \in DOMAIN transfers :
                         /\ transfers[i].t = "Encrypted"
                         /\ transfers[i].out = "FailedToDecypherTransfer"}
        upto == IF not_for_us = {} THEN Len(transfers)
                ELSE (CHOOSE i \in not_for_us : \A j \in not_for_us : i <= j) - 1
        w == transfers_walk(SubSeq(transfers, 1, upto), 1, <<>>, <<>>, 0)
    IN  IF w.err # "" THEN w
        ELSE IF w.cash_notes = <<>> THEN [w EXCEPT !.err = "NoPaymentToOurNode"]
        ELSE LET received_fee_to_our_node == total_cash_notes_amount(w.cash_notes)
                 fee == checked_add(w.received_fee, received_fee_to_our_node)
             IN  IF received_fee_to_our_node < 0 \/ fee < 0
                 THEN [w EXCEPT !.err = "NumericOverflow"]
                 ELSE [w EXCEPT !.received_fee = fee]

\* cash_notes_from_transfers(transfers, wallet, pretty_key)
cash_notes_from_transfers(transfers) ==
    LET w == transfers_walk(transfers, 1, <<>>, <<>>, 0) IN
    IF w.err # "" THEN w
    ELSE IF w.cash_notes = <<>> THEN [w EXCEPT !.err = "NoPaymentToOurNode"]
    ELSE LET received_fee_to_our_node == total_cash_notes_amount(w.cash_notes)
             fee == checked_add(w.received_fee, received_fee_to_our_node)
         IN  IF received_fee_to_our_node < 0 \/ fee < 0
             THEN [w EXCEPT !.err = "NumericOverflow"]
             ELSE [w EXCEPT !.received_fee = fee]

(***************************************************************************)
(* Payment validator: payment_for_us_exists_and_is_still_valid             *)
(***************************************************************************)
Validated(res, w, log, d, fresh) ==
    [res |-> res, wallet |-> w, log |-> log,
     \* what cash_notes_from_transfers returned, and the notes it decoded
     decode |-> IF d.err = "" THEN "Ok" ELSE d.err,
     cash_notes |-> IF d.err = "" THEN Range(d.cash_notes) ELSE {},
     \* the notes left by cash_notes.retain
     fresh |-> fresh,
     paid |-> IF d.err = "" THEN d.received_fee ELSE 0]

\* faulty variant: the retain keeps every cash note
retain_every_cash_note(w, cash_notes) == cash_notes

\* cash_notes.retain(|cash_note| !already_spent)
retain_not_already_spent(w, cash_notes) ==
    SelectSeq(cash_notes, LAMBDA cash_note : ~get_confirmed_spend(w, cash_note))

\* faulty variant: one royalties transfer that fails to verify counts as no
\* royalties payment
checks_strict_on_royalties(payment, d, cash_notes, w, log) ==
    LET fresh == Range(cash_notes)
        log1 == Append(log, E0("check_royalties"))
        log2 == Append(log1, E0("verify_quote"))
        log3 == Append(log2, E0("check_amount"))
        storecost == payment.quote.cost
        expected_royalties_fee == calculate_royalties_fee(storecost)
        expected_fee == checked_add(storecost, expected_royalties_fee)
    IN  IF \/ d.royalties_cash_notes_r = <<>>
           \/ \E i \in DOMAIN payment.transfers :
                 /\ payment.transfers[i].t = "NetworkRoyalties"
                 /\ payment.transfers[i].out # "Ok"
        THEN Validated("NoNetworkRoyaltiesPayment", w, log1, d, fresh)
        ELSE IF ~payment.quote.valid
        THEN Validated("InvalidQuote", w, log2, d, fresh)
        ELSE IF expected_fee < 0
        THEN Validated("NumericOverflow", w, log2, d, fresh)
        ELSE IF d.received_fee < expected_fee
        THEN Validated("PaymentProofInsufficientAmount", w, log3, d, fresh)
        ELSE Validated("Ok", w, log3, d, fresh)

\* from `if royalties_cash_notes_r.is_empty()` to the end: the checks that
\* follow the deposit
checks_after_deposit(payment, d, cash_notes, w, log) ==
    LET fresh == Range(cash_notes)
        log1 == Append(log, E0("check_royalties"))
        log2 == Append(log1, E0("verify_quote"))
        log3 == Append(log2, E0("check_amount"))
        storecost == payment.quote.cost
        expected_royalties_fee == calculate_royalties_fee(storecost)
        expected_fee == checked_add(storecost, expected_royalties_fee)
    IN  IF d.royalties_cash_notes_r = <<>>
        THEN Validated("NoNetworkRoyaltiesPayment", w, log1, d, fresh)
        ELSE IF ~payment.quote.valid
        THEN Validated("InvalidQuote", w, log2, d, fresh)
        ELSE IF expected_fee < 0
        THEN Validated("NumericOverflow", w, log2, d, fresh)
        ELSE IF d.received_fee < expected_fee
        THEN Validated("PaymentProofInsufficientAmount", w, log3, d, fresh)
        ELSE Validated("Ok", w, log3, d, fresh)

\* faulty variant: the deposit is made only once the checks have passed
check_then_deposit(payment, d, cash_notes, w, log) ==
    LET checked == checks_after_deposit(payment, d, cash_notes, w, log) IN
    IF checked.res # "Ok" THEN checked
    ELSE [checked EXCEPT
            !.wallet = deposit_and_store_to_disk(w, cash_notes),
            !.log = @ \o <<E0("notify_payment_received"), E0("deposit")>>]

\* notify_payment_received, then deposit_and_store_to_disk, then the checks
deposit_then_check(payment, d, cash_notes, w, log) ==
    checks_after_deposit(payment, d, cash_notes,
                         deposit_and_store_to_disk(w, cash_notes),
                         log \o <<E0("notify_payment_received"), E0("deposit")>>)

payment_for_us_exists_and_is_still_valid(payment, w) ==
    LET d == cash_notes_from_transfers(payment.transfers)
        \* load wallet, then one network verification per transfer walked
        log0 == <<E0("wallet_load")>> \o [i \in 1..d.walked |-> E0("verify_transfer")]
    IN  IF d.err # ""
        THEN Validated(d.err, w, log0, d, {})
        ELSE
          LET cash_notes == retain_not_already_spent(w, d.cash_notes)
              log1 == Append(log0, E0("get_confirmed_spend"))
          IN  IF cash_notes = <<>>
              THEN Validated("ReusedPayment", w, log1, d, {})
              ELSE deposit_then_check(payment, d, cash_notes, w, log1)

\* a call that does not validate a payment
NotValidated(w) ==
    [res |-> "NotRun", wallet |-> w, log |-> <<>>,
     decode |-> "NotRun", cash_notes |-> {}, fresh |-> {}, paid |-> 0]

(***************************************************************************)
(* Registers                                                               *)
(***************************************************************************)
\* a SignedRegister: its address, the entries it holds, and whether
\* register.verify() accepts it
SignedRegister(r, entries, valid) == [address |-> r, entries |-> entries, valid |-> valid]
NoRegister == SignedRegister(0, {}, FALSE)

InboundRegisters ==
    {SignedRegister(r, es, v) : r \in RegisterAddresses, es \in SUBSET Entries, v \in BOOLEAN}

\* merged_register.verified_merge(register): the union of the entries
verified_merge(local_register, register) ==
    [local_register EXCEPT !.entries = local_register.entries \cup register.entries]

(***************************************************************************)
(* Spends                                                                  *)
(***************************************************************************)
\* s.unique_pubkey(): the spend NumSpends is of another key than the others
unique_pubkey(s) == IF s = NumSpends THEN 2 ELSE 1
UniquePubkeys == {unique_pubkey(s) : s \in SignedSpends}

\* the double spend attempts on the first unique pubkey, and one spend whose
\* serialisation alone is half a packet
DoubleSpends == (NumSpends + 1)..(NumSpends + NumDoubleSpends)
BigSpend == NumSpends + NumDoubleSpends + 1

\* self.network().verify_spend(&s)
verify_spend(s) ==
    CASE s = 2 -> "ParentDoubleSpend"
      [] s = 3 -> "Err"
      [] OTHER -> "Ok"

(***************************************************************************)
(* Serialisation of record values                                          *)
(***************************************************************************)
\* try_serialize_record(&chunk, RecordKind::Chunk)
serialize_chunk(c) == Value("Chunk", <<c>>)
\* try_serialize_record(&register, RecordKind::Register): the address, then
\* the entries in their order
serialize_register(register) ==
    Value("Register", <<register.address>> \o SetToSortedSeq(register.entries))
\* try_serialize_record(&spends, RecordKind::Spend)
serialize_spends(spends) == Value("Spend", spends)

\* try_deserialize_record::<SignedRegister>(&record) of a stored register
deserialize_register(value) ==
    SignedRegister(value.bytes[1], Range(Tail(value.bytes)), TRUE)
\* try_deserialize_record::<Vec<SignedSpend>>(&record)
deserialize_spends(value) == value.bytes

(***************************************************************************)
(* Inbound records                                                         *)
(***************************************************************************)
Keys ==
    {ChunkXorName(c) : c \in Chunks}
    \cup {RegisterXorName(r) : r \in RegisterAddresses}
    \cup {SpendXorName(pk) : pk \in UniquePubkeys}

Record(kind, key, chunk, register, payment, spends) ==
    [kind |-> kind, key |-> key, chunk |-> chunk, register |-> register,
     payment |-> payment, spends |-> spends]

\* the keys an inbound record of a payload comes with: the key of the
\* payload's address, or a key that is not
KeysFor(key) == {key, CHOOSE k \in Keys : k # key}

ChunkRecords(kind, payments) ==
    UNION {{Record(kind, k, c, NoRegister, p, <<>>) :
                k \in KeysFor(to_record_key(from_chunk_address(c))), p \in payments} :
           c \in Chunks}
RegisterRecords(kind, payments) ==
    UNION {{Record(kind, k, 0, reg, p, <<>>) :
                k \in KeysFor(to_record_key(from_register_address(reg.address))),
                p \in payments} :
           reg \in InboundRegisters}
SpendRecords ==
    {Record("Spend", k, 0, NoRegister, NoPayment, ss) :
        k \in Keys, ss \in SeqsUpTo(SignedSpends, MaxIncomingSpends)}

InboundRecords ==
    ChunkRecords("Chunk", {NoPayment})
    \cup ChunkRecords("ChunkWithPayment", Payments)
    \cup RegisterRecords("Register", {NoPayment})
    \cup RegisterRecords("RegisterWithPayment", Payments)
    \cup SpendRecords

\* what get_raw_spends finds on the network for an address
NetworkSpends == SeqsUpTo(SignedSpends, MaxNetworkSpends)

(***************************************************************************)
(* Local record store                                                      *)
(***************************************************************************)
is_record_key_present_locally(st, key) == st[key].kind # "None"
get_local_record(st, key) == st[key]
put_local_record(st, key, value) == [st EXCEPT ![key] = value]

(***************************************************************************)
(* What a handler did: its result, the state it left, its effects in order *)
(* and the values of its local variables                                   *)
(***************************************************************************)
Done(res, st, w, log, already_exists, pay, reg) ==
    [res |-> res, store |-> st, wallet |-> w, log |-> log,
     already_exists |-> already_exists, pay |-> pay, reg |-> reg]

\* validate_key_and_existence
validate_key_and_existence(address, expected_record_key, st) ==
    LET data_key == to_record_key(address) IN
    IF expected_record_key # data_key
    THEN [err |-> "RecordKeyMismatch", present |-> "unset", log |-> <<>>]
    ELSE [err |-> "",
          present |-> IF is_record_key_present_locally(st, data_key) THEN "true" ELSE "false",
          log |-> <<EK("is_record_key_present_locally", data_key)>>]

\* faulty variant: the chunk is stored under the name of a register address
store_chunk_at_register_address(chunk, st) ==
    LET key == to_record_key(from_register_address(chunk)) IN
    [store |-> put_local_record(st, key, serialize_chunk(chunk)),
     log |-> <<EK("put_local_record", key), EK("ChunkStored", key)>>]

\* store_chunk
store_chunk(chunk, st) ==
    LET key == to_record_key(from_chunk_address(chunk)) IN
    [store |-> put_local_record(st, key, serialize_chunk(chunk)),
     log |-> <<EK("put_local_record", key), EK("ChunkStored", key)>>]

\* replicate_valid_fresh_record(record_key, record_type)
replicate_valid_fresh_record(key, rtype) == <<Ev("replicate_valid_fresh_record", key, rtype)>>

\* the chunk is already stored: replicate and return Ok
paid_chunk_already_exists(record, ke, payment_res, st) ==
    Done("Ok", st, payment_res.wallet,
         ke.log \o payment_res.log
                \o replicate_valid_fresh_record(record.key, RecordTypeChunk),
         ke.present, payment_res, "NotRun")

\* payment_res?
paid_chunk_payment_error(record, ke, payment_res, st) ==
    Done(payment_res.res, st, payment_res.wallet, ke.log \o payment_res.log,
         ke.present, payment_res, "NotRun")

\* store_chunk, and replicate when it is Ok
paid_chunk_store(record, ke, payment_res, st) ==
    LET stored == store_chunk(record.chunk, st) IN
    Done("Ok", stored.store, payment_res.wallet,
         ke.log \o payment_res.log \o stored.log
                \o replicate_valid_fresh_record(record.key, RecordTypeChunk),
         ke.present, payment_res, "NotRun")

\* faulty variant: a stored chunk returns before the payment is looked at
paid_chunk_unpaid_return(record, ke, payment_res, st, w) ==
    IF ke.err # "" THEN Done(ke.err, st, w, ke.log, ke.present, NotValidated(w), "NotRun")
    ELSE IF ke.present = "true"
    THEN paid_chunk_already_exists(record, ke, NotValidated(w), st)
    ELSE IF payment_res.res # "Ok"
    THEN paid_chunk_payment_error(record, ke, payment_res, st)
    ELSE paid_chunk_store(record, ke, payment_res, st)

\* faulty variant: the payment's error is returned before the stored chunk
\* is looked at
paid_chunk_error_first(record, ke, payment_res, st, w) ==
    IF ke.err # "" THEN Done(ke.err, st, w, ke.log, ke.present, NotValidated(w), "NotRun")
    ELSE IF payment_res.res # "Ok"
    THEN paid_chunk_payment_error(record, ke, payment_res, st)
    ELSE IF ke.present = "true"
    THEN paid_chunk_already_exists(record, ke, payment_res, st)
    ELSE paid_chunk_store(record, ke, payment_res, st)

\* faulty variant: the chunk is stored whatever the payment's result
paid_chunk_no_bail(record, ke, payment_res, st, w) ==
    IF ke.err # "" THEN Done(ke.err, st, w, ke.log, ke.present, NotValidated(w), "NotRun")
    ELSE IF ke.present = "true"
    THEN paid_chunk_already_exists(record, ke, payment_res, st)
    ELSE paid_chunk_store(record, ke, payment_res, st)

\* the ChunkWithPayment arm, given already_exists (or the key's error) and
\* payment_res
paid_chunk(record, ke, payment_res, st, w) ==
    IF ke.err # "" THEN Done(ke.err, st, w, ke.log, ke.present, NotValidated(w), "NotRun")
    ELSE IF ke.present = "true"
    THEN paid_chunk_already_exists(record, ke, payment_res, st)
    ELSE IF payment_res.res # "Ok"
    THEN paid_chunk_payment_error(record, ke, payment_res, st)
    ELSE paid_chunk_store(record, ke, payment_res, st)

\* validate_and_store_record, RecordKind::ChunkWithPayment
client_chunk_with_payment(record, st, w) ==
    paid_chunk(record,
               validate_key_and_existence(from_chunk_address(record.chunk), record.key, st),
               payment_for_us_exists_and_is_still_valid(record.payment, w),
               st, w)

\* validate_and_store_record, RecordKind::Chunk
client_chunk(record, st, w) ==
    Done("InvalidPutWithoutPayment", st, w, <<>>, "unset", NotValidated(w), "NotRun")

(***************************************************************************)
(* Registers: register_validation and validate_and_store_register          *)
(***************************************************************************)
\* register_validation: "None" (same as the local version), "Some" with the
\* register to store, or the error
register_validation(register, present_locally, st) ==
    LET key == to_record_key(from_register_address(register.address)) IN
    IF ~register.valid
    THEN [res |-> "InvalidRegister", reg |-> NoRegister, log |-> <<>>]
    ELSE IF ~present_locally
    THEN [res |-> "Some", reg |-> register, log |-> <<>>]
    ELSE
      LET record == get_local_record(st, key)
          local_register == deserialize_register(record)
          merged_register == verified_merge(local_register, register)
          log == <<EK("get_local_record", key)>>
      IN  IF merged_register = local_register
          THEN [res |-> "None", reg |-> NoRegister, log |-> log]
          ELSE [res |-> "Some", reg |-> merged_register, log |-> log]

\* faulty variant: an unchanged register returns without notifying the fetcher
validate_and_store_register_silent(register, with_payment, st) ==
    LET key == to_record_key(from_register_address(register.address))
        present_locally == is_record_key_present_locally(st, key)
        log0 == <<EK("is_record_key_present_locally", key)>>
        v == register_validation(register, present_locally, st)
        log1 == log0 \o v.log
    IN  CASE v.res = "None" ->
               [res |-> "Ok", store |-> st, reg |-> v.res, log |-> log1]
          [] v.res = "Some" ->
               LET value == serialize_register(v.reg)
                   content_hash == content_hash_of(value)
                   log2 == Append(log1, EK("put_local_record", key))
               IN  [res |-> "Ok", store |-> put_local_record(st, key, value), reg |-> v.res,
                    log |-> IF with_payment
                            THEN log2 \o replicate_valid_fresh_record(
                                             key, RecordTypeNonChunk(content_hash))
                            ELSE log2]
          [] OTHER -> [res |-> v.res, store |-> st, reg |-> v.res, log |-> log1]

\* validate_and_store_register(register, with_payment)
validate_and_store_register(register, with_payment, st) ==
    LET key == to_record_key(from_register_address(register.address))
        present_locally == is_record_key_present_locally(st, key)
        log0 == <<EK("is_record_key_present_locally", key)>>
        v == register_validation(register, present_locally, st)
        log1 == log0 \o v.log
    IN  CASE v.res = "None" ->
               [res |-> "Ok", store |-> st, reg |-> v.res,
                log |-> Append(log1, EK("notify_fetch_completed", key))]
          [] v.res = "Some" ->
               LET value == serialize_register(v.reg)
                   content_hash == content_hash_of(value)
                   log2 == Append(log1, EK("put_local_record", key))
               IN  [res |-> "Ok", store |-> put_local_record(st, key, value), reg |-> v.res,
                    log |-> IF with_payment
                            THEN log2 \o replicate_valid_fresh_record(
                                             key, RecordTypeNonChunk(content_hash))
                            ELSE log2]
          [] OTHER -> [res |-> v.res, store |-> st, reg |-> v.res, log |-> log1]

\* faulty variant: the update is stored whether or not the register is held locally
client_register_any(record, st, w) ==
    LET register == record.register
        net_addr == from_register_address(register.address)
        key == to_record_key(net_addr)
        ke == validate_key_and_existence(net_addr, key, st)
    IN  IF ke.err # ""
        THEN Done(ke.err, st, w, ke.log, ke.present, NotValidated(w), "NotRun")
        ELSE LET result == validate_and_store_register(register, TRUE, st) IN
             Done(result.res, result.store, w, ke.log \o result.log,
                  ke.present, NotValidated(w), result.reg)

\* validate_and_store_record, RecordKind::Register
client_register(record, st, w) ==
    LET register == record.register
        net_addr == from_register_address(register.address)
        key == to_record_key(net_addr)
        ke == validate_key_and_existence(net_addr, key, st)
    IN  IF ke.err # ""
        THEN Done(ke.err, st, w, ke.log, ke.present, NotValidated(w), "NotRun")
        ELSE IF ke.present # "true"
        THEN Done("InvalidPutWithoutPayment", st, w, ke.log, ke.present, NotValidated(w), "NotRun")
        ELSE LET result == validate_and_store_register(register, TRUE, st) IN
             Done(result.res, result.store, w, ke.log \o result.log,
                  ke.present, NotValidated(w), result.reg)

\* faulty variant: the payment's error is returned even when the register is held
client_register_with_payment_strict(record, st, w) ==
    LET register == record.register
        net_addr == from_register_address(register.address)
        key == to_record_key(net_addr)
    IN  IF record.key # key
        THEN Done("RecordKeyMismatch", st, w, <<>>, "unset", NotValidated(w), "NotRun")
        ELSE
          LET ke == validate_key_and_existence(net_addr, key, st)
              payment_res == payment_for_us_exists_and_is_still_valid(record.payment, w)
              log1 == ke.log \o payment_res.log
              w1 == payment_res.wallet
          IN  IF ke.err # ""
              THEN Done(ke.err, st, w, ke.log, ke.present, NotValidated(w), "NotRun")
              ELSE IF payment_res.res # "Ok"
              THEN Done(payment_res.res, st, w1, log1, ke.present, payment_res, "NotRun")
              ELSE LET result == validate_and_store_register(register, TRUE, st) IN
                   Done(result.res, result.store, w1, log1 \o result.log,
                        ke.present, payment_res, result.reg)

\* validate_and_store_record, RecordKind::RegisterWithPayment
client_register_with_payment(record, st, w) ==
    LET register == record.register
        net_addr == from_register_address(register.address)
        key == to_record_key(net_addr)
    IN  IF record.key # key
        THEN Done("RecordKeyMismatch", st, w, <<>>, "unset", NotValidated(w), "NotRun")
        ELSE
          LET ke == validate_key_and_existence(net_addr, key, st)
              payment_res == payment_for_us_exists_and_is_still_valid(record.payment, w)
              log1 == ke.log \o payment_res.log
              w1 == payment_res.wallet
          IN  IF ke.err # ""
              THEN Done(ke.err, st, w, ke.log, ke.present, NotValidated(w), "NotRun")
              ELSE IF payment_res.res # "Ok" /\ ke.present # "true"
              THEN Done(payment_res.res, st, w1, log1, ke.present, payment_res, "NotRun")
              ELSE LET result == validate_and_store_register(register, TRUE, st) IN
                   Done(result.res, result.store, w1, log1 \o result.log,
                        ke.present, payment_res, result.reg)

(***************************************************************************)
(* Spends: signed_spends_to_keep and validate_merge_and_store_spends       *)
(***************************************************************************)
\* MAX_PACKET_SIZE of sn_networking, in units of the size of a usual spend
MAX_PACKET_SIZE == 200

\* serialised size of one spend
spend_size(s) == IF s = BigSpend THEN MAX_PACKET_SIZE \div 2 ELSE 1

\* try_serialize_record(&local_spends, RecordKind::Spend)?.to_vec().len()
RECURSIVE serialized_size(_)
serialized_size(spends) ==
    IF spends = <<>> THEN 0
    ELSE spend_size(Head(spends)) + serialized_size(Tail(spends))

\* get_local_spends
get_local_spends(st, key) ==
    LET local_record == get_local_record(st, key) IN
    IF local_record.kind = "None" THEN [err |-> "", spends |-> <<>>]
    ELSE IF local_record.kind # "Spend" THEN [err |-> "RecordKindMismatch", spends |-> <<>>]
    ELSE [err |-> "", spends |-> deserialize_spends(local_record)]

\* faulty variant: the first spend that verifies is the only one kept
verified_first_only(candidates) ==
    LET ok == {j \in DOMAIN candidates : verify_spend(candidates[j]) # "Err"} IN
    IF ok = {} THEN {} ELSE {candidates[CHOOSE j \in ok : \A k \in ok : j <= k]}

\* the spends that verify_spend accepts, and whether one has a double spent parent
verified_of(candidates) ==
    {candidates[i] : i \in {j \in DOMAIN candidates : verify_spend(candidates[j]) # "Err"}}
parent_double_spend_in(candidates) ==
    \E i \in DOMAIN candidates : verify_spend(candidates[i]) = "ParentDoubleSpend"

\* faulty variant: the local copy is returned on the replication path too
local_copy_is_full_on_any_path(local_spends, from_put) ==
    \/ Len(local_spends) >= MAX_DOUBLE_SPEND_ATTEMPTS_TO_KEEP_FROM_PUTS
    \/ serialized_size(local_spends) >= MAX_PACKET_SIZE \div 2 /\ Len(local_spends) > 1

\* (max_spend_len_reached || max_spend_size_reached) && from_put
local_copy_is_full(local_spends, from_put) ==
    LET max_spend_len_reached ==
            Len(local_spends) >= MAX_DOUBLE_SPEND_ATTEMPTS_TO_KEEP_FROM_PUTS
        max_spend_size_reached ==
            serialized_size(local_spends) >= MAX_PACKET_SIZE \div 2 /\ Len(local_spends) > 1
    IN  (max_spend_len_reached \/ max_spend_size_reached) /\ from_put

\* faulty variant: a spend with a double spent parent is always refused
parent_spend_always_invalid(parent_is_a_double_spend, all_verified_spends) ==
    parent_is_a_double_spend

\* parent_is_a_double_spend && all_verified_spends.len() == 1
parent_spend_is_invalid(parent_is_a_double_spend, all_verified_spends) ==
    parent_is_a_double_spend /\ Cardinality(all_verified_spends) = 1

\* faulty variant: every verified spend is kept
keep_every_spend(all_verified_spends) == SetToSortedSeq(all_verified_spends)

\* all_verified_spends.into_iter().take(MAX_DOUBLE_SPEND_ATTEMPTS_TO_KEEP_PER_RECORD)
keep_per_record(all_verified_spends) ==
    Take(SetToSortedSeq(all_verified_spends), MAX_DOUBLE_SPEND_ATTEMPTS_TO_KEEP_PER_RECORD)

\* signed_spends_to_keep(signed_spends, unique_pubkey, from_put)
signed_spends_to_keep(signed_spends, pk, from_put, network_spends, st) ==
    LET key == to_record_key(from_spend_address(pk))
        local == get_local_spends(st, key)
        local_spends == local.spends
        log0 == <<EK("get_local_record", key)>>
    IN  IF local.err # ""
        THEN [err |-> local.err, spends |-> <<>>, log |-> log0]
        ELSE IF local_copy_is_full(local_spends, from_put)
        THEN [err |-> "", spends |-> local_spends, log |-> log0]
        ELSE
          LET candidates == signed_spends \o network_spends
              log1 == log0 \o <<EK("get_raw_spends", key)>>
                           \o [i \in DOMAIN candidates |-> E0("verify_spend")]
              all_verified_spends == Range(local_spends) \cup verified_of(candidates)
              parent_is_a_double_spend == parent_double_spend_in(candidates)
              verified_spends == keep_per_record(all_verified_spends)
          IN  IF parent_spend_is_invalid(parent_is_a_double_spend, all_verified_spends)
              THEN [err |-> "InvalidParentSpend", spends |-> <<>>, log |-> log1]
              ELSE IF verified_spends = <<>>
              THEN [err |-> "InvalidRequest", spends |-> <<>>, log |-> log1]
              ELSE [err |-> "", spends |-> verified_spends, log |-> log1]

\* faulty variant: the spends of the key are stored even when they are refused
store_refused_spends(signed_spends, record_key, from_put, network_spends, st) ==
    LET spends_for_key ==
            SelectSeq(signed_spends,
                      LAMBDA s : to_record_key(from_spend_address(unique_pubkey(s))) = record_key)
    IN  IF spends_for_key = <<>>
        THEN [res |-> "InvalidRequest", store |-> st, log |-> <<>>]
        ELSE
          LET pk == unique_pubkey(spends_for_key[1])
              kept == signed_spends_to_keep(spends_for_key, pk, from_put, network_spends, st)
          IN  IF kept.err # ""
              THEN [res |-> kept.err,
                    store |-> put_local_record(st, record_key, serialize_spends(spends_for_key)),
                    log |-> Append(kept.log, EK("put_local_record", record_key))]
              ELSE [res |-> "Ok",
                    store |-> put_local_record(st, record_key, serialize_spends(kept.spends)),
                    log |-> Append(kept.log, EK("put_local_record", record_key))]

\* validate_merge_and_store_spends(signed_spends, record_key, from_put)
validate_merge_and_store_spends(signed_spends, record_key, from_put, network_spends, st) ==
    LET spends_for_key ==
            SelectSeq(signed_spends,
                      LAMBDA s : to_record_key(from_spend_address(unique_pubkey(s))) = record_key)
    IN  IF spends_for_key = <<>>
        THEN [res |-> "InvalidRequest", store |-> st, log |-> <<>>]
        ELSE
          LET pk == unique_pubkey(spends_for_key[1])
              kept == signed_spends_to_keep(spends_for_key, pk, from_put, network_spends, st)
          IN  IF kept.err # ""
              THEN [res |-> kept.err, store |-> st, log |-> kept.log]
              ELSE [res |-> "Ok",
                    store |-> put_local_record(st, record_key, serialize_spends(kept.spends)),
                    log |-> Append(kept.log, EK("put_local_record", record_key))]

\* validate_and_store_record, RecordKind::Spend
client_spend(record, network_spends, st, w) ==
    LET record_key == record.key
        value_to_hash == serialize_spends(record.spends)
        result == validate_merge_and_store_spends(record.spends, record_key, TRUE,
                                                  network_spends, st)
        content_hash == content_hash_of(value_to_hash)
    IN  Done(result.res, result.store, w,
             IF result.res = "Ok"
             THEN result.log \o replicate_valid_fresh_record(
                                    record_key, RecordTypeNonChunk(content_hash))
             ELSE result.log,
             "unset", NotValidated(w), "NotRun")

(***************************************************************************)
(* The two entry points                                                    *)
(***************************************************************************)
\* validate_and_store_record, match record_header.kind
client_record_kind(record, network_spends, st, w) ==
    CASE record.kind = "ChunkWithPayment" -> client_chunk_with_payment(record, st, w)
      [] record.kind = "Chunk" -> client_chunk(record, st, w)
      [] record.kind = "Spend" -> client_spend(record, network_spends, st, w)
      [] record.kind = "Register" -> client_register(record, st, w)
      [] OTHER -> client_register_with_payment(record, st, w)

\* faulty variant: the fetcher is notified once the record has been handled
notify_after_the_match(key, arm) ==
    [arm EXCEPT !.log = arm.log \o <<EK("notify_fetch_completed", key)>>]

\* notify_fetch_completed(record.key), then the match
notify_then_match(key, arm) ==
    [arm EXCEPT !.log = <<EK("notify_fetch_completed", key)>> \o arm.log]

\* validate_and_store_record(record)
validate_and_store_record(record, network_spends, st, w) ==
    notify_then_match(record.key, client_record_kind(record, network_spends, st, w))

\* store_replicated_in_record, RecordKind::Chunk
replicated_chunk(record, st, w) ==
    LET ke == validate_key_and_existence(from_chunk_address(record.chunk), record.key, st) IN
    IF ke.err # ""
    THEN Done(ke.err, st, w, ke.log, ke.present, NotValidated(w), "NotRun")
    ELSE IF ke.present = "true"
    THEN Done("Ok", st, w, ke.log, ke.present, NotValidated(w), "NotRun")
    ELSE LET stored == store_chunk(record.chunk, st) IN
         Done("Ok", stored.store, w, ke.log \o stored.log, ke.present, NotValidated(w), "NotRun")

\* store_replicated_in_record, RecordKind::Spend
replicated_spend(record, network_spends, st, w) ==
    LET result == validate_merge_and_store_spends(record.spends, record.key, FALSE,
                                                  network_spends, st)
    IN  Done(result.res, result.store, w, result.log, "unset", NotValidated(w), "NotRun")

\* faulty variant: a replicated register is stored as a paid one
replicated_register_as_paid(record, st, w) ==
    LET register == record.register
        key == to_record_key(from_register_address(register.address))
    IN  IF record.key # key
        THEN Done("RecordKeyMismatch", st, w, <<>>, "unset", NotValidated(w), "NotRun")
        ELSE LET result == validate_and_store_register(register, TRUE, st) IN
             Done(result.res, result.store, w, result.log, "unset", NotValidated(w), result.reg)

\* store_replicated_in_record, RecordKind::Register
replicated_register(record, st, w) ==
    LET register == record.register
        key == to_record_key(from_register_address(register.address))
    IN  IF record.key # key
        THEN Done("RecordKeyMismatch", st, w, <<>>, "unset", NotValidated(w), "NotRun")
        ELSE LET result == validate_and_store_register(register, FALSE, st) IN
             Done(result.res, result.store, w, result.log, "unset", NotValidated(w), result.reg)

\* faulty variant: a record that came with a payment is stored as if it had none
store_replicated_with_payment(record, network_spends, st, w) ==
    CASE record.kind \in {"Chunk", "ChunkWithPayment"} -> replicated_chunk(record, st, w)
      [] record.kind = "Spend" -> replicated_spend(record, network_spends, st, w)
      [] OTHER -> replicated_register(record, st, w)

\* store_replicated_in_record(record)
store_replicated_in_record(record, network_spends, st, w) ==
    CASE record.kind \in {"ChunkWithPayment", "RegisterWithPayment"} ->
           Done("UnexpectedRecordWithPayment", st, w, <<>>, "unset", NotValidated(w), "NotRun")
      [] record.kind = "Chunk" -> replicated_chunk(record, st, w)
      [] record.kind = "Spend" -> replicated_spend(record, network_spends, st, w)
      [] OTHER -> replicated_register(record, st, w)

(***************************************************************************)
(* The state machine                                                       *)
(***************************************************************************)
\* the key derived from the payload's own address
canonical_key(record) ==
    CASE record.kind \in {"Chunk", "ChunkWithPayment"} ->
           to_record_key(from_chunk_address(record.chunk))
      [] record.kind \in {"Register", "RegisterWithPayment"} ->
           to_record_key(from_register_address(record.register.address))
      [] OTHER -> IF record.spends = <<>> THEN 0
                  ELSE to_record_key(from_spend_address(unique_pubkey(record.spends[1])))

\* the cash notes the decoder returns for the record's payment
offered_cash_notes(record) ==
    LET d == cash_notes_from_transfers(record.payment.transfers) IN
    IF d.err # "" THEN {} ELSE Range(d.cash_notes)

\* what `last` keeps of a call: the record without its payment, the cash
\* notes its payment offers, what the network held for a spend address, and
\* what the handler did
Called(entry, record, network_spends, h) ==
    [entry |-> entry, kind |-> record.kind, key |-> record.key,
     canonical |-> canonical_key(record),
     chunk |-> record.chunk, register |-> record.register, spends |-> record.spends,
     offered |-> offered_cash_notes(record), network |-> network_spends,
     res |-> h.res, already_exists |-> h.already_exists,
     payment_res |-> h.pay.res, decode |-> h.pay.decode,
     cash_notes |-> h.pay.cash_notes, fresh |-> h.pay.fresh, paid |-> h.pay.paid,
     reg |-> h.reg, log |-> h.log]

NoCall(entry) ==
    [entry |-> entry, kind |-> "None", key |-> 0, canonical |-> 0,
     chunk |-> 0, register |-> NoRegister, spends |-> <<>>,
     offered |-> {}, network |-> <<>>,
     res |-> "None", already_exists |-> "unset",
     payment_res |-> "NotRun", decode |-> "NotRun",
     cash_notes |-> {}, fresh |-> {}, paid |-> 0,
     reg |-> "NotRun", log |-> <<>>]

\* the tasks that run a call each, and a task that has not been given one
Tasks == 1..NumTasks
Idle == [pc |-> "idle"]

Init ==
    /\ store = [k \in Keys |-> NoValue]
    /\ wallet = [available |-> {}, confirmed |-> {}]
    /\ last = NoCall("init")
    /\ inflight = [t \in Tasks |-> Idle]

\* the call returns: the store and the wallet are as the handler left them
Returns(entry, record, network_spends, h) ==
    /\ store' = h.store
    /\ wallet' = h.wallet
    /\ last' = Called(entry, record, network_spends, h)
    /\ UNCHANGED inflight

\* a client PUT of one of `records` reaches the node; `networks` is what the
\* network may hold for a spend address
ClientPut(records, networks) ==
    \E record \in records :
      \E network_spends \in IF record.kind = "Spend" THEN networks ELSE {<<>>} :
        Returns("client", record, network_spends,
                validate_and_store_record(record, network_spends, store, wallet))

\* a record of `records` fetched for replication reaches the node
ReplicatedPut(records, networks) ==
    \E record \in records :
      \E network_spends \in IF record.kind = "Spend" THEN networks ELSE {<<>>} :
        Returns("replicated", record, network_spends,
                store_replicated_in_record(record, network_spends, store, wallet))

\* the node spends a cash note it holds: the wallet records the confirmed spend
WalletSpend ==
    \E n \in wallet.available :
        /\ wallet' = [available |-> wallet.available \ {n},
                      confirmed |-> wallet.confirmed \cup {n}]
        /\ last' = NoCall("wallet")
        /\ UNCHANGED <<store, inflight>>

(***************************************************************************)
(* The whole router: every record kind on both entry points, with the      *)
(* payments that lead the validator to each of its results                 *)
(***************************************************************************)
RouterRecords ==
    ChunkRecords("Chunk", {NoPayment})
    \cup ChunkRecords("ChunkWithPayment", RouterPayments)
    \cup RegisterRecords("Register", {NoPayment})
    \cup RegisterRecords("RegisterWithPayment", RouterPayments)
    \cup {r \in SpendRecords : Len(r.spends) <= 1}

Next ==
    \/ ClientPut(RouterRecords, {<<>>})
    \/ ReplicatedPut(RouterRecords, {<<>>})
    \/ WalletSpend

Spec == Init /\ [][Next]_vars

(***************************************************************************)
(* Chunks only, with every payment                                         *)
(***************************************************************************)
ChunkFamilyRecords ==
    ChunkRecords("Chunk", {NoPayment}) \cup ChunkRecords("ChunkWithPayment", Payments)

NextChunk ==
    \/ ClientPut(ChunkFamilyRecords, {<<>>})
    \/ ReplicatedPut(ChunkFamilyRecords, {<<>>})
    \/ WalletSpend

SpecChunk == Init /\ [][NextChunk]_vars

(***************************************************************************)
(* Registers only, with every payment                                      *)
(***************************************************************************)
RegisterFamilyRecords ==
    RegisterRecords("Register", {NoPayment})
    \cup RegisterRecords("RegisterWithPayment", Payments)

NextRegister ==
    \/ ClientPut(RegisterFamilyRecords, {<<>>})
    \/ ReplicatedPut(RegisterFamilyRecords, {<<>>})
    \/ WalletSpend

SpecRegister == Init /\ [][NextRegister]_vars

(***************************************************************************)
(* Spends only: the inbound records carry a spend or two, or a run of the  *)
(* double spend attempts on the first unique pubkey; the network holds     *)
(* nothing, a spend with a double spent parent, or a spend of another key  *)
(***************************************************************************)
Interval(a, b) == [i \in 1..(b - a + 1) |-> a + i - 1]

\* one spend short of what is kept from PUTs; two more; the rest
FirstRun ==
    Interval(NumSpends + 1, NumSpends + MAX_DOUBLE_SPEND_ATTEMPTS_TO_KEEP_FROM_PUTS - 1)
SecondRun ==
    Interval(NumSpends + MAX_DOUBLE_SPEND_ATTEMPTS_TO_KEEP_FROM_PUTS,
             NumSpends + MAX_DOUBLE_SPEND_ATTEMPTS_TO_KEEP_FROM_PUTS + 1)
ThirdRun ==
    Interval(NumSpends + MAX_DOUBLE_SPEND_ATTEMPTS_TO_KEEP_FROM_PUTS + 2,
             NumSpends + NumDoubleSpends)

SpendBatches ==
    SeqsUpTo(SignedSpends, 1)
    \cup {<<1, 2>>, <<1, NumSpends>>, FirstRun, SecondRun, ThirdRun, <<BigSpend>>}

\* the keys a batch comes with: the first unique pubkey's, and its spends'
SpendKeysOf(spends) ==
    {to_record_key(from_spend_address(1))}
    \cup {to_record_key(from_spend_address(unique_pubkey(spends[i]))) : i \in DOMAIN spends}

SpendFamilyRecords ==
    UNION {{Record("Spend", k, 0, NoRegister, NoPayment, ss) : k \in SpendKeysOf(ss)} :
           ss \in SpendBatches}

SpendNetworks == {<<>>, <<2>>, <<NumSpends>>}

NextSpend ==
    \/ ClientPut(SpendFamilyRecords, SpendNetworks)
    \/ ReplicatedPut(SpendFamilyRecords, SpendNetworks)

SpecSpend == Init /\ [][NextSpend]_vars

(***************************************************************************)
(* Spends that arrive through client PUTs only, the network holding none   *)
(***************************************************************************)
NextSpendPut == ClientPut(SpendFamilyRecords, {<<>>})

SpecSpendPut == Init /\ [][NextSpendPut]_vars

(***************************************************************************)
(* Paid chunks only, with every payment; `last` keeps the payment too      *)
(***************************************************************************)
CalledWithPayment(entry, record, h) ==
    Called(entry, record, <<>>, h)
        @@ [transfers |-> record.payment.transfers, quote |-> record.payment.quote]

ReturnsWithPayment(entry, record, h) ==
    /\ store' = h.store
    /\ wallet' = h.wallet
    /\ last' = CalledWithPayment(entry, record, h)
    /\ UNCHANGED inflight

\* payments of a cash note for this node and two royalties transfers, each
\* of which verifies or does not, in every order
MixedRoyaltiesPayments ==
    LET royalties == {NetworkRoyalties("Ok", <<1>>), NetworkRoyalties("Invalid", <<1>>)}
        ours == Encrypted("Ok", <<1>>)
    IN  [transfers : UNION {{<<ours, a, b>>, <<a, ours, b>>, <<a, b, ours>>} :
                              a \in royalties, b \in royalties},
         quote : Quotes]

\* payments of two different cash notes for this node and verified royalties
TwoNotesPayments ==
    [transfers : UNION {{<<Encrypted("Ok", <<a>>), Encrypted("Ok", <<b>>),
                           NetworkRoyalties("Ok", <<1>>)>> : b \in Notes \ {a}} :
                        a \in Notes},
     quote : Quotes]

PaidChunkPayments == Payments \cup MixedRoyaltiesPayments \cup TwoNotesPayments

\* a client PUT of a chunk with a payment reaches the node
PaidChunkPut ==
    \E record \in ChunkRecords("ChunkWithPayment", PaidChunkPayments) :
        ReturnsWithPayment("client", record,
                           validate_and_store_record(record, <<>>, store, wallet))

NextPayment ==
    \/ PaidChunkPut
    \/ WalletSpend

SpecPayment == Init /\ [][NextPayment]_vars

(***************************************************************************)
(* Concurrent PUTs.  Each task runs one call, split where the handler      *)
(* awaits; `last` keeps the effects of the calls in the order they ended   *)
(***************************************************************************)
Concurrent(log) == [NoCall("concurrent") EXCEPT !.log = log]

\* the task's call has returned
Ended(t, call, h) ==
    inflight' = [inflight EXCEPT ![t] = [pc |-> "done", entry |-> call.entry,
                                          record |-> call.record, res |-> h.res]]

(***************************************************************************)
(* Concurrent PUTs of a chunk: the handler awaits the presence check and   *)
(* the payment validation, then stores                                     *)
(***************************************************************************)
ChunkRaceRecords(entry) ==
    IF entry = "client" THEN ChunkRecords("ChunkWithPayment", RouterPayments)
    ELSE ChunkRecords("Chunk", {NoPayment})

\* store_replicated_in_record, RecordKind::Chunk, from `if already_exists` on
replicated_chunk_after_check(record, ke, st, w) ==
    IF ke.err # ""
    THEN Done(ke.err, st, w, ke.log, ke.present, NotValidated(w), "NotRun")
    ELSE IF ke.present = "true"
    THEN Done("Ok", st, w, ke.log, ke.present, NotValidated(w), "NotRun")
    ELSE LET stored == store_chunk(record.chunk, st) IN
         Done("Ok", stored.store, w, ke.log \o stored.log, ke.present, NotValidated(w), "NotRun")

ChunkChecked(t, entry, record, ke, payment_res) ==
    /\ wallet' = payment_res.wallet
    /\ inflight' = [inflight EXCEPT ![t] = [pc |-> "checked", entry |-> entry,
                                            record |-> record, ke |-> ke,
                                            payment_res |-> payment_res]]
    /\ UNCHANGED <<store, last>>

\* validate_key_and_existence(..).await, and on the client entry point
\* payment_for_us_exists_and_is_still_valid(..).await
ChunkPutChecks(t) ==
    /\ inflight[t] = Idle
    /\ \E entry \in {"client", "replicated"} :
         \E record \in ChunkRaceRecords(entry) :
           ChunkChecked(t, entry, record,
                        validate_key_and_existence(from_chunk_address(record.chunk),
                                                   record.key, store),
                        IF entry = "client" /\ record.key = canonical_key(record)
                        THEN payment_for_us_exists_and_is_still_valid(record.payment, wallet)
                        ELSE NotValidated(wallet))

ChunkStored(t, call, h) ==
    /\ store' = h.store
    /\ last' = Concurrent(last.log \o h.log)
    /\ Ended(t, call, h)
    /\ UNCHANGED wallet

\* the rest of the handler, on the store as it is by now
ChunkPutStores(t) ==
    /\ inflight[t].pc = "checked"
    /\ ChunkStored(t, inflight[t],
                   IF inflight[t].entry = "client"
                   THEN paid_chunk(inflight[t].record, inflight[t].ke,
                                   inflight[t].payment_res, store, wallet)
                   ELSE replicated_chunk_after_check(inflight[t].record, inflight[t].ke,
                                                     store, wallet))

NextChunkRace ==
    \E t \in Tasks :
        \/ ChunkPutChecks(t)
        \/ ChunkPutStores(t)

SpecChunkRace == Init /\ [][NextChunkRace]_vars

(***************************************************************************)
(* Concurrent replicated PUTs of a register: the handler awaits the        *)
(* presence check and register_validation, which reads the local copy and  *)
(* merges, then stores                                                     *)
(***************************************************************************)
\* validate_and_store_register, from `let updated_register = match` on
store_validated_register(register, with_payment, v, st) ==
    LET key == to_record_key(from_register_address(register.address)) IN
    CASE v.res = "None" ->
           [res |-> "Ok", store |-> st, reg |-> v.res,
            log |-> Append(v.log, EK("notify_fetch_completed", key))]
      [] v.res = "Some" ->
           LET value == serialize_register(v.reg)
               content_hash == content_hash_of(value)
               log2 == Append(v.log, EK("put_local_record", key))
           IN  [res |-> "Ok", store |-> put_local_record(st, key, value), reg |-> v.res,
                log |-> IF with_payment
                        THEN log2 \o replicate_valid_fresh_record(
                                         key, RecordTypeNonChunk(content_hash))
                        ELSE log2]
      [] OTHER -> [res |-> v.res, store |-> st, reg |-> v.res, log |-> v.log]

RegisterValidated(t, record, v) ==
    /\ inflight' = [inflight EXCEPT ![t] = [pc |-> "validated", entry |-> "replicated",
                                            record |-> record, v |-> v]]
    /\ UNCHANGED <<store, wallet, last>>

\* is_record_key_present_locally(&key).await and register_validation(..).await
RegisterPutValidates(t) ==
    /\ inflight[t] = Idle
    /\ \E record \in RegisterRecords("Register", {NoPayment}) :
         RegisterValidated(t, record,
             IF record.key # canonical_key(record)
             THEN [res |-> "RecordKeyMismatch", reg |-> NoRegister, log |-> <<>>]
             ELSE register_validation(record.register,
                                      is_record_key_present_locally(store, record.key),
                                      store))

RegisterStored(t, call, h) ==
    /\ store' = h.store
    /\ last' = Concurrent(last.log \o h.log)
    /\ Ended(t, call, h)
    /\ UNCHANGED wallet

\* the rest of validate_and_store_register, on the store as it is by now
RegisterPutStores(t) ==
    /\ inflight[t].pc = "validated"
    /\ RegisterStored(t, inflight[t],
                      store_validated_register(inflight[t].record.register, FALSE,
                                               inflight[t].v, store))

NextRegisterRace ==
    \E t \in Tasks :
        \/ RegisterPutValidates(t)
        \/ RegisterPutStores(t)

SpecRegisterRace == Init /\ [][NextRegisterRace]_vars

(***************************************************************************)
(* Concurrent PUTs of spends of one key: the handler reads the local       *)
(* spends, asks the network, spawns one verify_spend task per spend and    *)
(* joins them in the order they complete, then stores                      *)
(***************************************************************************)
SpendRaceBatches == {<<1>>, <<2>>, <<1, 2>>, <<2, 3>>, <<NumSpends>>}
SpendRaceRecords ==
    {Record("Spend", to_record_key(from_spend_address(1)), 0, NoRegister, NoPayment, ss) :
        ss \in SpendRaceBatches}
SpendRaceNetworks == {<<>>, <<1>>}

\* signed_spends.into_iter().filter(..): the spends of the record key
spends_of_key(signed_spends, record_key) ==
    SelectSeq(signed_spends,
              LAMBDA s : to_record_key(from_spend_address(unique_pubkey(s))) = record_key)

\* the call as one step, for the paths that await nothing after the local read
spend_call(entry, record, network_spends, st, w) ==
    IF entry = "client"
    THEN validate_and_store_record(record, network_spends, st, w)
    ELSE store_replicated_in_record(record, network_spends, st, w)

\* the JoinSet of verify_spend tasks, none joined yet
Spawned(entry, record, network_spends, local_spends, candidates) ==
    [pc |-> "joining", entry |-> entry, record |-> record, network |-> network_spends,
     local |-> local_spends, candidates |-> candidates, pending |-> DOMAIN candidates,
     all_verified_spends |-> Range(local_spends), parent_is_a_double_spend |-> FALSE]

\* faulty variant: collecting stops at the first spend with a double spent parent
join_until_double_spend(call, i) ==
    LET spend == call.candidates[i]
        res == verify_spend(spend)
        joined == [call EXCEPT !.pending = @ \ {i}]
    IN  CASE res = "ParentDoubleSpend" ->
               [joined EXCEPT !.parent_is_a_double_spend = TRUE,
                              !.all_verified_spends = @ \cup {spend},
                              !.pending = {}]
          [] res = "Ok" -> [joined EXCEPT !.all_verified_spends = @ \cup {spend}]
          [] OTHER -> joined

\* one turn of `while let Some(res) = tasks.join_next().await`
join_next(call, i) ==
    LET spend == call.candidates[i]
        res == verify_spend(spend)
        joined == [call EXCEPT !.pending = @ \ {i}]
    IN  CASE res = "ParentDoubleSpend" ->
               [joined EXCEPT !.parent_is_a_double_spend = TRUE,
                              !.all_verified_spends = @ \cup {spend}]
          [] res = "Ok" -> [joined EXCEPT !.all_verified_spends = @ \cup {spend}]
          [] OTHER -> joined

\* signed_spends_to_keep, after the loop
spends_after_join(call) ==
    IF parent_spend_is_invalid(call.parent_is_a_double_spend, call.all_verified_spends)
    THEN [err |-> "InvalidParentSpend", spends |-> <<>>]
    ELSE LET verified_spends == keep_per_record(call.all_verified_spends) IN
         IF verified_spends = <<>>
         THEN [err |-> "InvalidRequest", spends |-> <<>>]
         ELSE [err |-> "", spends |-> verified_spends]

\* validate_merge_and_store_spends after signed_spends_to_keep, and the
\* caller's replication of a client PUT
store_kept_spends(call, kept, st) ==
    LET record_key == call.record.key
        content_hash == content_hash_of(serialize_spends(call.record.spends))
    IN  IF kept.err # ""
        THEN [res |-> kept.err, store |-> st, log |-> <<>>]
        ELSE [res |-> "Ok",
              store |-> put_local_record(st, record_key, serialize_spends(kept.spends)),
              log |-> <<EK("put_local_record", record_key)>>
                      \o IF call.entry = "client"
                         THEN replicate_valid_fresh_record(
                                  record_key, RecordTypeNonChunk(content_hash))
                         ELSE <<>>]

SpendEnded(t, call, h) ==
    /\ store' = h.store
    /\ last' = Concurrent(last.log \o h.log)
    /\ inflight' = [inflight EXCEPT ![t] = [call EXCEPT !.pc = "done"]
                                              @@ [res |-> h.res,
                                                  stored |-> h.store[call.record.key]]]
    /\ UNCHANGED wallet

SpendRead(t, entry, record, network_spends, spends_for_key, local) ==
    IF \/ spends_for_key = <<>>
       \/ local.err # ""
       \/ local_copy_is_full(local.spends, entry = "client")
    THEN SpendEnded(t, [pc |-> "read", entry |-> entry, record |-> record,
                        network |-> network_spends, local |-> local.spends,
                        candidates |-> <<>>],
                    spend_call(entry, record, network_spends, store, wallet))
    ELSE /\ inflight' = [inflight EXCEPT ![t] =
                            Spawned(entry, record, network_spends, local.spends,
                                    spends_for_key \o network_spends)]
         /\ UNCHANGED <<store, wallet, last>>

\* up to get_local_spends(spend_addr).await, get_raw_spends(spend_addr).await
\* and the spawning of the tasks
SpendPutReads(t) ==
    /\ inflight[t] = Idle
    /\ \E entry \in {"client", "replicated"}, record \in SpendRaceRecords,
          network_spends \in SpendRaceNetworks :
         SpendRead(t, entry, record, network_spends,
                   spends_of_key(record.spends, record.key),
                   get_local_spends(store, record.key))

\* tasks.join_next().await yields the result of any task that has completed
SpendPutJoins(t) ==
    /\ inflight[t].pc = "joining"
    /\ \E i \in inflight[t].pending :
         /\ inflight' = [inflight EXCEPT ![t] = join_next(inflight[t], i)]
         /\ UNCHANGED <<store, wallet, last>>

\* the loop has ended: the spends to keep are decided and stored
SpendPutStores(t) ==
    /\ inflight[t].pc = "joining"
    /\ inflight[t].pending = {}
    /\ SpendEnded(t, inflight[t],
                  store_kept_spends(inflight[t], spends_after_join(inflight[t]), store))

NextSpendRace ==
    \E t \in Tasks :
        \/ SpendPutReads(t)
        \/ SpendPutJoins(t)
        \/ SpendPutStores(t)

SpecSpendRace == Init /\ [][NextSpendRace]_vars

(***************************************************************************)
(* Reading a call's log                                                    *)
(***************************************************************************)
Places(log, name) == {i \in DOMAIN log : log[i].ev = name}
Times(log, name) == Cardinality(Places(log, name))

\* outbound replication was triggered once, for `key` with `rtype`
ReplicatedOnce(log, key, rtype) ==
    /\ Times(log, "replicate_valid_fresh_record") = 1
    /\ \A i \in Places(log, "replicate_valid_fresh_record") :
          log[i] = Ev("replicate_valid_fresh_record", key, rtype)

\* a client PUT of a ChunkWithPayment under the chunk's own key
IsPaidChunkPut(l) ==
    l.entry = "client" /\ l.kind = "ChunkWithPayment" /\ l.key = l.canonical

\* the validator's errors that follow the deposit
AfterDepositErrors ==
    {"NoNetworkRoyaltiesPayment", "InvalidQuote", "PaymentProofInsufficientAmount"}

(***************************************************************************)
(* C1: a client PUT of a ChunkWithPayment whose key is the chunk's and     *)
(* whose chunk is already stored returns success, deposits the cash notes  *)
(* of the payment that are not already spent (the notes the decoder        *)
(* returned; none when the decoder fails), triggers outbound replication   *)
(* exactly once with RecordType::Chunk, and writes nothing to the store.   *)
(***************************************************************************)
C1_PresentChunkKeepsPayment ==
    [][(IsPaidChunkPut(last') /\ is_record_key_present_locally(store, last'.key))
        => /\ last'.res = "Ok"
           /\ wallet'.available = wallet.available \cup (last'.offered \ wallet.confirmed)
           /\ wallet'.confirmed = wallet.confirmed
           /\ ReplicatedOnce(last'.log, last'.key, RecordTypeChunk)
           /\ Times(last'.log, "put_local_record") = 0
           /\ store' = store]_vars

C1_Witness ==
    /\ IsPaidChunkPut(last)
    /\ last.already_exists = "true"
    /\ last.res = "Ok"
    /\ last.fresh # {}
    /\ last.fresh \subseteq wallet.available
    /\ Times(last.log, "deposit") = 1

(***************************************************************************)
(* C2 as claimed: a client PUT of a stored chunk whose payment carries     *)
(* only cash notes the node has already spent returns ReusedPayment.       *)
(***************************************************************************)
C2_RetryReturnsReusedPayment ==
    (/\ IsPaidChunkPut(last)
     /\ last.already_exists = "true"
     /\ last.decode = "Ok"
     /\ last.cash_notes \subseteq wallet.confirmed)
    => last.res = "ReusedPayment"

(***************************************************************************)
(* C2 amended: on such a PUT the payment validator answers ReusedPayment,  *)
(* but the call returns success; the chunk stays stored unchanged, the     *)
(* wallet is unchanged and outbound replication is triggered once.         *)
(***************************************************************************)
C2_RetryReturnsOk ==
    [][(/\ IsPaidChunkPut(last')
        /\ is_record_key_present_locally(store, last'.key)
        /\ last'.decode = "Ok"
        /\ last'.cash_notes \subseteq wallet.confirmed)
        => /\ last'.payment_res = "ReusedPayment"
           /\ last'.res = "Ok"
           /\ store' = store
           /\ store'[last'.key] = serialize_chunk(last'.chunk)
           /\ wallet' = wallet
           /\ ReplicatedOnce(last'.log, last'.key, RecordTypeChunk)]_vars

C2_Witness ==
    /\ IsPaidChunkPut(last)
    /\ last.already_exists = "true"
    /\ last.payment_res = "ReusedPayment"
    /\ last.res = "Ok"
    /\ last.cash_notes # {}
    /\ last.cash_notes \subseteq wallet.confirmed
    /\ store[last.key] = serialize_chunk(last.chunk)

(***************************************************************************)
(* C3: a client PUT of a ChunkWithPayment whose chunk is not stored: when  *)
(* the payment validator returns an error, the call returns that error,    *)
(* writes nothing and triggers no replication; when it succeeds, the chunk *)
(* is written exactly once under the key of its address and replication is *)
(* triggered exactly once with RecordType::Chunk.                          *)
(***************************************************************************)
C3_AbsentChunkNeedsPayment ==
    [][(IsPaidChunkPut(last') /\ ~is_record_key_present_locally(store, last'.key))
        => /\ last'.payment_res # "NotRun"
           /\ IF last'.payment_res # "Ok"
              THEN /\ last'.res = last'.payment_res
                   /\ store' = store
                   /\ Times(last'.log, "put_local_record") = 0
                   /\ Times(last'.log, "replicate_valid_fresh_record") = 0
              ELSE /\ last'.res = "Ok"
                   /\ store' = [store EXCEPT ![ChunkXorName(last'.chunk)] =
                                                Value("Chunk", <<last'.chunk>>)]
                   /\ Times(last'.log, "put_local_record") = 1
                   /\ \A i \in Places(last'.log, "put_local_record") :
                         last'.log[i].key = ChunkXorName(last'.chunk)
                   /\ ReplicatedOnce(last'.log, last'.key, RecordTypeChunk)]_vars

C3_Witness ==
    /\ IsPaidChunkPut(last)
    /\ last.already_exists = "false"
    /\ last.payment_res = "PaymentProofInsufficientAmount"
    /\ last.res = "PaymentProofInsufficientAmount"
    /\ store[last.key] = NoValue
    /\ last.fresh # {}
    /\ last.fresh \subseteq wallet.available

(***************************************************************************)
(* C4: in the payment validator the payment-received notification and the  *)
(* deposit each happen exactly once and before the royalty check, the      *)
(* quote verification and the sufficiency check; when the validator        *)
(* returns NoNetworkRoyaltiesPayment, a quote error or                     *)
(* PaymentProofInsufficientAmount, the wallet holds the deposited notes.   *)
(***************************************************************************)
C4_DepositBeforeChecks ==
    [][/\ \A i \in DOMAIN last'.log :
            last'.log[i].ev \in {"check_royalties", "verify_quote", "check_amount"}
            => /\ Times(last'.log, "notify_payment_received") = 1
               /\ Times(last'.log, "deposit") = 1
               /\ \A j \in Places(last'.log, "notify_payment_received")
                           \cup Places(last'.log, "deposit") : j < i
       /\ last'.payment_res \in AfterDepositErrors
            => /\ Times(last'.log, "notify_payment_received") = 1
               /\ Times(last'.log, "deposit") = 1
               /\ last'.cash_notes \ wallet.confirmed # {}
               /\ wallet'.available =
                     wallet.available \cup (last'.cash_notes \ wallet.confirmed)]_vars

C4_Witness ==
    /\ last.payment_res = "PaymentProofInsufficientAmount"
    /\ last.res = "PaymentProofInsufficientAmount"
    /\ Times(last.log, "deposit") = 1
    /\ Times(last.log, "check_amount") = 1
    /\ last.fresh # {}
    /\ last.fresh \subseteq wallet.available

(***************************************************************************)
(* C5: when the decoder has returned cash notes, the payment validator     *)
(* returns ReusedPayment if and only if every one of them is in the        *)
(* wallet's confirmed spends; it returns ReusedPayment in no other case,   *)
(* and then sends no payment-received notification and deposits nothing.   *)
(***************************************************************************)
C5_ReusedPaymentIffAllSpent ==
    [][/\ last'.decode = "Ok"
            => (last'.payment_res = "ReusedPayment"
                  <=> last'.cash_notes \subseteq wallet.confirmed)
       /\ last'.payment_res = "ReusedPayment"
            => /\ last'.decode = "Ok"
               /\ last'.cash_notes # {}
               /\ Times(last'.log, "notify_payment_received") = 0
               /\ Times(last'.log, "deposit") = 0
               /\ wallet' = wallet]_vars

C5_Witness ==
    /\ last.payment_res = "ReusedPayment"
    /\ last.res = "ReusedPayment"
    /\ Cardinality(last.cash_notes) = 2
    /\ last.cash_notes \subseteq wallet.confirmed

C7_UnpaidPutRejected ==
    [][(/\ last'.entry = "client"
        /\ \/ last'.kind = "Chunk"
           \/ /\ last'.kind = "Register"
              /\ ~is_record_key_present_locally(store, last'.canonical))
        => /\ last'.res = "InvalidPutWithoutPayment"
           /\ store' = store
           /\ wallet' = wallet
           /\ Times(last'.log, "put_local_record") = 0
           /\ Times(last'.log, "deposit") = 0
           /\ Times(last'.log, "replicate_valid_fresh_record") = 0]_vars

C7_Witness ==
    /\ last.entry = "client"
    /\ last.kind = "Register"
    /\ last.register.valid
    /\ last.register.entries # {}
    /\ last.already_exists = "false"
    /\ last.res = "InvalidPutWithoutPayment"
    /\ store[last.canonical] = NoValue

(***************************************************************************)
(* C8: a client PUT of kind Register for a register that is held locally   *)
(* never triggers outbound replication.                                    *)
(***************************************************************************)
C8_UnpaidRegisterNeverReplicates ==
    (/\ last.entry = "client"
     /\ last.kind = "Register"
     /\ last.already_exists = "true")
    => Times(last.log, "replicate_valid_fresh_record") = 0

(***************************************************************************)
(* C9: a client PUT of kind RegisterWithPayment under the register's key   *)
(* whose payment the validator refuses: when the register is held locally  *)
(* the error is dropped and the register is verified, merged and stored    *)
(* (the call's result is the register's); when it is not, the call returns *)
(* the validator's error and the store is left unchanged.                  *)
(***************************************************************************)
C9_PaymentErrorSuppressedIfExists ==
    [][(/\ last'.entry = "client"
        /\ last'.kind = "RegisterWithPayment"
        /\ last'.key = last'.canonical
        /\ last'.payment_res # "Ok")
        => IF is_record_key_present_locally(store, last'.key)
           THEN /\ last'.payment_res # "NotRun"
                /\ last'.reg # "NotRun"
                /\ last'.res = IF last'.register.valid THEN "Ok" ELSE "InvalidRegister"
                /\ store' = IF last'.register.valid
                            THEN [store EXCEPT ![last'.key] =
                                    serialize_register(verified_merge(
                                        deserialize_register(store[last'.key]),
                                        last'.register))]
                            ELSE store
           ELSE /\ last'.res = last'.payment_res
                /\ last'.res \notin {"Ok", "NotRun"}
                /\ last'.reg = "NotRun"
                /\ store' = store
                /\ Times(last'.log, "put_local_record") = 0]_vars

C9_Witness ==
    /\ last.entry = "client"
    /\ last.kind = "RegisterWithPayment"
    /\ last.already_exists = "true"
    /\ last.payment_res = "PaymentProofInsufficientAmount"
    /\ last.res = "Ok"
    /\ last.reg = "Some"
    /\ store[last.key] = serialize_register(last.register)

\* a register PUT that reaches validate_and_store_register
ReachesRegisterCommit(l) ==
    \/ l.entry = "client" /\ l.kind = "Register"
    \/ l.entry = "client" /\ l.kind = "RegisterWithPayment" /\ l.key = l.canonical
    \/ l.entry = "replicated" /\ l.kind = "Register" /\ l.key = l.canonical

(***************************************************************************)
(* C10: a register PUT, paid or not, client or replicated, whose verified  *)
(* merge with the local copy equals the local copy returns success, puts   *)
(* no record, triggers no outbound replication and ends by notifying the   *)
(* replication fetcher for the register's key.                             *)
(***************************************************************************)
C10_UnchangedRegisterOnlyNotifies ==
    [][(/\ ReachesRegisterCommit(last')
        /\ last'.register.valid
        /\ is_record_key_present_locally(store, last'.canonical)
        /\ verified_merge(deserialize_register(store[last'.canonical]), last'.register)
              = deserialize_register(store[last'.canonical]))
        => /\ last'.reg = "None"
           /\ last'.res = "Ok"
           /\ store' = store
           /\ Times(last'.log, "put_local_record") = 0
           /\ Times(last'.log, "replicate_valid_fresh_record") = 0
           /\ last'.log # <<>>
           /\ last'.log[Len(last'.log)] = EK("notify_fetch_completed", last'.canonical)]_vars

C10_Witness ==
    /\ last.entry = "replicated"
    /\ last.kind = "Register"
    /\ last.reg = "None"
    /\ last.res = "Ok"
    /\ last.register.entries # {}
    /\ store[last.canonical] = serialize_register(last.register)
    /\ last.log[Len(last.log)] = EK("notify_fetch_completed", last.canonical)

(***************************************************************************)
(* Keys of stored records                                                  *)
(***************************************************************************)
\* the key of the address of the payload a stored value holds
stored_payload_key(value) ==
    CASE value.kind = "Chunk" -> to_record_key(from_chunk_address(value.bytes[1]))
      [] value.kind = "Register" ->
           to_record_key(from_register_address(deserialize_register(value).address))
      [] OTHER -> 0

\* C11: after every call of either entry point, each chunk and each register
\* held in the local store sits under the key derived from its own address,
\* and a chunk or register call that writes, writes the key derived from its
\* payload and no other, whatever key the inbound record carried.
C11_StoredUnderCanonicalKey ==
    [][/\ \A k \in Keys :
            store'[k].kind \in {"Chunk", "Register"} => stored_payload_key(store'[k]) = k
       /\ last'.kind \in {"Chunk", "ChunkWithPayment", "Register", "RegisterWithPayment"}
            => /\ \A k \in Keys : store'[k] # store[k] => k = last'.canonical
               /\ \A i \in Places(last'.log, "put_local_record") :
                     last'.log[i].key = last'.canonical]_vars

\* a client Register PUT that carried another key than its register's wrote
\* the merged register under the register's key
C11_Witness ==
    /\ last.entry = "client" /\ last.kind = "Register"
    /\ last.key # last.canonical
    /\ Times(last.log, "put_local_record") = 1
    /\ store[last.canonical].kind = "Register"
    /\ last.register.entries \subseteq deserialize_register(store[last.canonical]).entries
    /\ store[last.key].kind # "Register"

(***************************************************************************)
(* Stored spends                                                           *)
(***************************************************************************)
\* the spends the local store holds under a key
stored_spends(st, key) == IF st[key].kind = "Spend" THEN deserialize_spends(st[key]) ELSE <<>>

\* the spends of the last call that are of the key it came with
spends_for_key(l) ==
    SelectSeq(l.spends, LAMBDA s : to_record_key(from_spend_address(unique_pubkey(s))) = l.key)

\* C12: whatever Spend records the two entry points have handled, every
\* stored Spend record holds at least one spend and at most
\* MAX_DOUBLE_SPEND_ATTEMPTS_TO_KEEP_PER_RECORD (30) spends.
C12_StoredSpendsWithinCap ==
    \A k \in Keys :
        store[k].kind = "Spend"
            => /\ Len(stored_spends(store, k)) >= 1
               /\ Len(stored_spends(store, k)) <= MAX_DOUBLE_SPEND_ATTEMPTS_TO_KEEP_PER_RECORD

\* a call verified a spend of its key that the cap cut off: the stored
\* record holds exactly 30 spends and not that one
C12_Witness ==
    /\ last.kind = "Spend" /\ last.res = "Ok"
    /\ Times(last.log, "verify_spend") > 0
    /\ Len(stored_spends(store, last.key)) = MAX_DOUBLE_SPEND_ATTEMPTS_TO_KEEP_PER_RECORD
    /\ \E s \in Range(spends_for_key(last)) :
          verify_spend(s) = "Ok" /\ s \notin Range(stored_spends(store, last.key))

\* C13: every spend of a stored Spend record has the record's key as the key
\* of its unique pubkey, the spends merged in from the network included.
C13_StoredSpendsAreOfTheKey ==
    \A k \in Keys :
        \A s \in Range(stored_spends(store, k)) :
            to_record_key(from_spend_address(unique_pubkey(s))) = k

(***************************************************************************)
(* Records that come with another key than their payload's                 *)
(***************************************************************************)
\* C14: a record whose key differs from the key derived from its payload's
\* address is rejected with RecordKeyMismatch and nothing is written to the
\* local store; stated here for Register records, on both entry points.
C14_KeyMismatchRejected ==
    [][last'.kind = "Register" /\ last'.key # last'.canonical
         => last'.res = "RecordKeyMismatch" /\ store' = store]_vars

(***************************************************************************)
(* Spends kept from client PUTs                                            *)
(***************************************************************************)
\* C15: when spends arrive through client PUTs only, every stored Spend
\* record holds at most MAX_DOUBLE_SPEND_ATTEMPTS_TO_KEEP_FROM_PUTS (15)
\* spends.
C15_StoredSpendsFromPutsWithinCap ==
    \A k \in Keys :
        Len(stored_spends(store, k)) <= MAX_DOUBLE_SPEND_ATTEMPTS_TO_KEEP_FROM_PUTS

(***************************************************************************)
(* Double spends                                                           *)
(***************************************************************************)
\* the spends of the last call, and of the network's answer to it, that
\* verify_spend accepts
accepted_incoming(l) == {s \in Range(spends_for_key(l)) : verify_spend(s) # "Err"}
accepted_network(l) == {s \in Range(l.network) : verify_spend(s) # "Err"}

\* the call carries two distinct spends of its key that both verify
CarriesDoubleSpend(l) ==
    /\ l.kind = "Spend"
    /\ Cardinality(accepted_incoming(l)) >= 2

\* the local copy holds 15 spends or more, or more than one spend and half a
\* packet or more
AtLimit(local_spends) ==
    \/ Len(local_spends) >= MAX_DOUBLE_SPEND_ATTEMPTS_TO_KEEP_FROM_PUTS
    \/ serialized_size(local_spends) >= MAX_PACKET_SIZE \div 2 /\ Len(local_spends) > 1

\* a client PUT finds the local copy at its limit
SkipsIncoming(l, local_spends) == l.entry = "client" /\ AtLimit(local_spends)

\* C16 as stated: a Spend record carrying two distinct verified spends of its
\* key returns success and, as far as 30 spends hold them, the stored record
\* contains both together with the spends stored before.
C16_DoubleSpendAlwaysStored ==
    [][CarriesDoubleSpend(last')
         => /\ last'.res = "Ok"
            /\ LET local_spends == Range(stored_spends(store, last'.key))
                   all == local_spends \cup accepted_incoming(last') \cup accepted_network(last')
               IN  Cardinality(all) <= MAX_DOUBLE_SPEND_ATTEMPTS_TO_KEEP_PER_RECORD
                     => (local_spends \cup accepted_incoming(last'))
                          \subseteq Range(stored_spends(store', last'.key))]_vars

\* C16: a Spend record carrying two distinct verified spends of its key
\* returns success; unless it is a client PUT that finds the local copy at
\* its limit, which leaves the record as it was, the stored record is the
\* first 30, in the spends' order, of the spends stored before, the verified
\* incoming spends and the verified spends of the network.
C16_DoubleSpendStoredUnlessSkipped ==
    [][CarriesDoubleSpend(last')
         => /\ last'.res = "Ok"
            /\ LET local_spends == stored_spends(store, last'.key)
                   all == Range(local_spends) \cup accepted_incoming(last')
                            \cup accepted_network(last')
               IN  IF SkipsIncoming(last', local_spends)
                   THEN stored_spends(store', last'.key) = local_spends
                   ELSE stored_spends(store', last'.key) =
                          Take(SetToSortedSeq(all), MAX_DOUBLE_SPEND_ATTEMPTS_TO_KEEP_PER_RECORD)]_vars

\* two verified spends of one key were stored next to spends held before
C16_Witness ==
    /\ CarriesDoubleSpend(last) /\ last.res = "Ok"
    /\ Times(last.log, "verify_spend") >= 2
    /\ accepted_incoming(last) \subseteq Range(stored_spends(store, last.key))
    /\ Range(stored_spends(store, last.key)) \ (accepted_incoming(last) \cup accepted_network(last)) # {}

(***************************************************************************)
(* Spends whose parent is a double spend                                   *)
(***************************************************************************)
\* the call verifies its spends, and one of them, or one the network holds,
\* has a double spent parent
VerifiesParentDoubleSpend(l, local_spends) ==
    /\ l.kind = "Spend"
    /\ spends_for_key(l) # <<>>
    /\ ~SkipsIncoming(l, local_spends)
    /\ \E s \in Range(spends_for_key(l)) \cup Range(l.network) :
          verify_spend(s) = "ParentDoubleSpend"

\* C17: when a verification of a Spend call reports ParentDoubleSpend, the
\* call fails with InvalidParentSpend and writes nothing if the local spends
\* and the verified incoming and network spends are one spend in all, and
\* succeeds and stores them (the first 30 of them, in their order) if they
\* are more than one.
C17_ParentDoubleSpendPolicy ==
    [][LET local_spends == stored_spends(store, last'.key)
           all == Range(local_spends) \cup accepted_incoming(last')
                    \cup accepted_network(last')
       IN  VerifiesParentDoubleSpend(last', local_spends)
             => /\ Times(last'.log, "verify_spend") > 0
                /\ Cardinality(all) = 1
                     => last'.res = "InvalidParentSpend" /\ store' = store
                /\ Cardinality(all) > 1
                     => /\ last'.res = "Ok"
                        /\ stored_spends(store', last'.key) =
                             Take(SetToSortedSeq(all),
                                  MAX_DOUBLE_SPEND_ATTEMPTS_TO_KEEP_PER_RECORD)]_vars

\* a lone spend whose parent is a double spend was refused and nothing is
\* stored under its key
C17_Witness ==
    /\ last.kind = "Spend" /\ last.res = "InvalidParentSpend"
    /\ Times(last.log, "verify_spend") > 0
    /\ Times(last.log, "put_local_record") = 0
    /\ \E s \in accepted_incoming(last) : verify_spend(s) = "ParentDoubleSpend"
    /\ stored_spends(store, last.key) = <<>>

(***************************************************************************)
(* The replication entry point                                             *)
(***************************************************************************)
\* C18: a ChunkWithPayment or RegisterWithPayment record that reaches the
\* replication entry point is rejected with UnexpectedRecordWithPayment; the
\* call reads and changes nothing: no wallet access, no payment validation,
\* no store access, no replication.
C18_ReplicatedPaymentRejected ==
    [][last'.entry = "replicated"
         /\ last'.kind \in {"ChunkWithPayment", "RegisterWithPayment"}
         => /\ last'.res = "UnexpectedRecordWithPayment"
            /\ last'.log = <<>>
            /\ last'.payment_res = "NotRun"
            /\ store' = store
            /\ wallet' = wallet]_vars

\* a chunk that is not held came for replication under its own key, with a
\* payment of cash notes the wallet has never seen, and was rejected
C18_Witness ==
    /\ last.entry = "replicated" /\ last.kind = "ChunkWithPayment"
    /\ last.res = "UnexpectedRecordWithPayment"
    /\ last.key = last.canonical
    /\ store[last.key].kind = "None"
    /\ last.offered # {}
    /\ last.offered \cap (wallet.available \cup wallet.confirmed) = {}

\* C19: no call of the replication entry point triggers outbound
\* replication or touches the wallet, whatever the record's kind and the
\* outcome; a replicated Register that changes the local copy is written
\* under its key and not replicated further.
C19_ReplicationEntryNeverReplicates ==
    [][last'.entry = "replicated"
         => /\ Times(last'.log, "replicate_valid_fresh_record") = 0
            /\ wallet' = wallet
            /\ last'.payment_res = "NotRun"
            /\ last'.kind = "Register" /\ last'.reg = "Some"
                 => /\ last'.res = "Ok"
                    /\ Times(last'.log, "put_local_record") = 1
                    /\ store'[last'.canonical] # store[last'.canonical]]_vars

\* a replicated Register brought entries the local copy did not have: the
\* merged register is stored and nothing is replicated
C19_Witness ==
    /\ last.entry = "replicated" /\ last.kind = "Register"
    /\ last.res = "Ok" /\ last.reg = "Some"
    /\ Times(last.log, "get_local_record") = 1
    /\ Times(last.log, "put_local_record") = 1
    /\ Times(last.log, "replicate_valid_fresh_record") = 0
    /\ last.register.entries # {}
    /\ deserialize_register(store[last.canonical]).entries = last.register.entries

(***************************************************************************)
(* A local copy at its limit                                               *)
(***************************************************************************)
\* C20: a Spend record with a spend of its key finds the local copy at its
\* limit.  On a client PUT nothing is fetched from the network and no spend
\* is verified, the call returns success and the spends stored for the key
\* are those stored before.  On the replication path the network is asked,
\* every incoming and network spend is verified and the call stores the
\* first 30 of the local and the verified spends.
C20_ClientPutSkipsAtLimit ==
    [][LET local_spends == stored_spends(store, last'.key)
           all == Range(local_spends) \cup accepted_incoming(last')
                    \cup accepted_network(last')
       IN  last'.kind = "Spend" /\ spends_for_key(last') # <<>> /\ AtLimit(local_spends)
             => /\ last'.res = "Ok"
                /\ last'.entry = "client"
                     => /\ Times(last'.log, "get_raw_spends") = 0
                        /\ Times(last'.log, "verify_spend") = 0
                        /\ stored_spends(store', last'.key) = local_spends
                /\ last'.entry = "replicated"
                     => /\ Times(last'.log, "get_raw_spends") = 1
                        /\ Times(last'.log, "verify_spend") =
                             Len(spends_for_key(last')) + Len(last'.network)
                        /\ stored_spends(store', last'.key) =
                             Take(SetToSortedSeq(all),
                                  MAX_DOUBLE_SPEND_ATTEMPTS_TO_KEEP_PER_RECORD)]_vars

\* a client PUT brought a valid spend of a key whose record is at its limit
\* and below 30 spends: nothing was verified and the spend is not stored
C20_Witness ==
    /\ last.entry = "client" /\ last.kind = "Spend" /\ last.res = "Ok"
    /\ Times(last.log, "get_raw_spends") = 0
    /\ Times(last.log, "verify_spend") = 0
    /\ AtLimit(stored_spends(store, last.key))
    /\ Len(stored_spends(store, last.key)) < MAX_DOUBLE_SPEND_ATTEMPTS_TO_KEEP_PER_RECORD
    /\ \E s \in accepted_incoming(last) : s \notin Range(stored_spends(store, last.key))

(***************************************************************************)
(* What outbound replication is told                                       *)
(***************************************************************************)
\* C23: whenever a call enqueues outbound replication with
\* RecordType::NonChunk(content_hash) for a key, content_hash is the hash of
\* the serialised value that the same call wrote to the local store under
\* that key.
C23_ReplicatedHashIsOfStoredValue ==
    [][\A i \in Places(last'.log, "replicate_valid_fresh_record") :
          last'.log[i].rtype.t = "NonChunk"
            => /\ \E j \in Places(last'.log, "put_local_record") :
                    j < i /\ last'.log[j].key = last'.log[i].key
               /\ last'.log[i].rtype.hash = content_hash_of(store'[last'.log[i].key])]_vars

(***************************************************************************)
(* The transfers of a payment                                              *)
(***************************************************************************)
\* the last call validated the payment it came with
ValidatedPayment(l) == l.kind = "ChunkWithPayment" /\ l.payment_res # "NotRun"

\* the transfers of a kind with an answer of their verification
TransfersOf(transfers, t, out) ==
    {i \in DOMAIN transfers : transfers[i].t = t /\ transfers[i].out = out}

\* the Encrypted transfers that neither unpack nor are merely not for us
InvalidEncrypted(transfers) ==
    {i \in DOMAIN transfers :
        /\ transfers[i].t = "Encrypted"
        /\ transfers[i].out \notin {"Ok", "FailedToDecypherTransfer"}}

\* the cash notes of the Encrypted transfers that unpack
notes_for_us(transfers) ==
    UNION {Range(transfers[i].notes) : i \in TransfersOf(transfers, "Encrypted", "Ok")}

\* C24: in the transfer decoder an Encrypted transfer that fails to decrypt
\* is passed over and the transfers after it are still decoded; any other
\* verification error of an Encrypted transfer ends the walk at that
\* transfer with that error; a walk that ends with no cash note for this
\* node gives NoPaymentToOurNode; and whenever the decoder returns an error
\* the validator returns it, the wallet is as it was and no payment-received
\* notification or deposit was made.
C24_DecoderSkipsAndAborts ==
    [][ValidatedPayment(last')
         => LET transfers == last'.transfers
                invalid == InvalidEncrypted(transfers)
            IN  /\ last'.decode # "NumericOverflow"
                     => /\ last'.decode = "InvalidTransfer" <=> invalid # {}
                        /\ invalid # {}
                             => \E i \in invalid :
                                  /\ \A j \in invalid : i <= j
                                  /\ Times(last'.log, "verify_transfer") = i
                        /\ invalid = {}
                             => /\ Times(last'.log, "verify_transfer") = Len(transfers)
                                /\ last'.decode = "NoPaymentToOurNode"
                                     <=> notes_for_us(transfers) = {}
                                /\ last'.decode = "Ok"
                                     => last'.cash_notes = notes_for_us(transfers)
                /\ last'.decode # "Ok"
                     => /\ last'.payment_res = last'.decode
                        /\ wallet' = wallet
                        /\ Times(last'.log, "notify_payment_received") = 0
                        /\ Times(last'.log, "deposit") = 0]_vars

\* a payment whose first transfer could not be decrypted and whose second
\* held a cash note for this node was decoded, and the note deposited
C24_Witness ==
    /\ ValidatedPayment(last)
    /\ Len(last.transfers) = 2
    /\ last.transfers[1].t = "Encrypted"
    /\ last.transfers[1].out = "FailedToDecypherTransfer"
    /\ last.decode = "Ok"
    /\ last.cash_notes = Range(last.transfers[2].notes)
    /\ Times(last.log, "deposit") = 1
    /\ last.cash_notes \subseteq wallet.available

(***************************************************************************)
(* Network royalties                                                       *)
(***************************************************************************)
\* C25: a NetworkRoyalties transfer that fails verification is passed over
\* without error; the validator returns NoNetworkRoyaltiesPayment exactly
\* when the decoder succeeded, a cash note survived the replay filter and
\* was deposited, and no NetworkRoyalties transfer verified; so a payment
\* with a royalties transfer that verifies and others that fail is not
\* rejected for missing royalties.
C25_FailedRoyaltiesTolerated ==
    [][ValidatedPayment(last')
         => LET transfers == last'.transfers
                verified == TransfersOf(transfers, "NetworkRoyalties", "Ok")
                failed == TransfersOf(transfers, "NetworkRoyalties", "Invalid")
            IN  /\ failed # {} /\ InvalidEncrypted(transfers) = {}
                     /\ last'.decode # "NumericOverflow"
                     => /\ Times(last'.log, "verify_transfer") = Len(transfers)
                        /\ last'.decode = "Ok" <=> notes_for_us(transfers) # {}
                /\ last'.payment_res = "NoNetworkRoyaltiesPayment"
                     <=> /\ last'.decode = "Ok"
                         /\ last'.cash_notes \ wallet.confirmed # {}
                         /\ verified = {}
                /\ last'.payment_res = "NoNetworkRoyaltiesPayment"
                     => /\ Times(last'.log, "deposit") = 1
                        /\ wallet'.available =
                              wallet.available \cup (last'.cash_notes \ wallet.confirmed)]_vars

\* a payment with one royalties transfer that failed verification before
\* one that verified was accepted
C25_Witness ==
    /\ ValidatedPayment(last)
    /\ last.payment_res = "Ok" /\ last.res = "Ok"
    /\ \E i \in TransfersOf(last.transfers, "NetworkRoyalties", "Invalid") :
         \E j \in TransfersOf(last.transfers, "NetworkRoyalties", "Ok") : i < j
    /\ Times(last.log, "verify_transfer") = Len(last.transfers)
    /\ store[last.key].kind = "Chunk"

(***************************************************************************)
(* The amount a payment pays                                               *)
(***************************************************************************)
\* the value of a set of cash notes
RECURSIVE value_of(_)
value_of(notes) ==
    IF notes = {} THEN 0
    ELSE LET n == CHOOSE x \in notes : TRUE IN NoteValue(n) + value_of(notes \ {n})

\* the value of the redemptions of the royalties transfers that verify
RECURSIVE royalties_of(_)
royalties_of(transfers) ==
    IF transfers = <<>> THEN 0
    ELSE royalties_of(Tail(transfers))
         + IF Head(transfers).t = "NetworkRoyalties" /\ Head(transfers).out = "Ok"
           THEN total_redemptions_amount(Head(transfers).redemptions) ELSE 0

\* C27: the payment validator returns success only if the verified network
\* royalties and the cash notes that survive the replay filter, the ones
\* deposited by the call, are together worth at least the store cost plus
\* the royalties fee on it; cash notes dropped as already spent do not count.
C27_PaidAmountCountsFreshNotesOnly ==
    [][ValidatedPayment(last') /\ last'.payment_res = "Ok"
         => royalties_of(last'.transfers) + value_of(last'.cash_notes \ wallet.confirmed)
              >= last'.quote.cost + calculate_royalties_fee(last'.quote.cost)]_vars

(***************************************************************************)
(* Calls that return an error                                              *)
(***************************************************************************)
\* C26: a call of either entry point that returns an error has put no record
\* and enqueued no outbound replication, and leaves the local store as it
\* was; it may have deposited cash notes and notified the fetcher.
C26_FailedCallsWriteNothing ==
    [][last'.entry \in {"client", "replicated"} /\ last'.res # "Ok"
         => /\ store' = store
            /\ Times(last'.log, "put_local_record") = 0
            /\ Times(last'.log, "replicate_valid_fresh_record") = 0]_vars

\* a paid chunk was refused for paying too little after its cash note had
\* been deposited and the fetcher notified: the chunk is not stored
C26_Witness ==
    /\ last.entry = "client" /\ last.kind = "ChunkWithPayment"
    /\ last.res = "PaymentProofInsufficientAmount"
    /\ Times(last.log, "notify_fetch_completed") = 1
    /\ Times(last.log, "deposit") = 1
    /\ last.fresh # {} /\ last.fresh \subseteq wallet.available
    /\ Times(last.log, "put_local_record") = 0
    /\ store[last.key].kind = "None"

(***************************************************************************)
(* Concurrent PUTs of one chunk                                            *)
(***************************************************************************)
\* the puts of a key among the effects
PutsOf(log, key) == {i \in Places(log, "put_local_record") : log[i].key = key}

\* C22: a chunk is stored once: whatever the interleaving of concurrent
\* client and replicated PUTs of a chunk, put_local_record is executed at
\* most once for its key.
C22_ChunkPutAtMostOnce ==
    \A k \in Keys : Cardinality(PutsOf(last.log, k)) <= 1

(***************************************************************************)
(* Concurrent PUTs of one register                                         *)
(***************************************************************************)
\* the tasks whose call was a PUT of the register of an address and returned Ok
AcceptedFor(r) ==
    {t \in Tasks : /\ inflight[t].pc = "done"
                   /\ inflight[t].res = "Ok"
                   /\ inflight[t].record.register.address = r}

\* C29: when concurrent PUTs of one register, each passing verification,
\* have all completed on a node that did not hold the register, the
\* register stored is the merge of every incoming register: no accepted
\* update is lost.
C29_NoRegisterUpdateLost ==
    \A r \in RegisterAddresses :
        AcceptedFor(r) = Tasks
            => /\ store[RegisterXorName(r)].kind = "Register"
               /\ deserialize_register(store[RegisterXorName(r)]).entries
                    = UNION {inflight[t].record.register.entries : t \in Tasks}

(***************************************************************************)
(* Concurrent PUTs of the spends of one key                                *)
(***************************************************************************)
\* C28: once a stored Spend record holds two or more spends, it holds two
\* or more spends after every later step of any call, under any
\* interleaving: double spend evidence is never lost.
C28_DoubleSpendEvidenceKept ==
    [][\A k \in Keys :
          Len(stored_spends(store, k)) >= 2 => Len(stored_spends(store', k)) >= 2]_vars

\* the calls that went through the join loop to its end
Joined(t) ==
    /\ inflight[t].pc \in {"joining", "done"}
    /\ inflight[t].candidates # <<>>
    /\ inflight[t].pc = "joining" => inflight[t].pending = {}

====
